---- MODULE Spec2Model ----
(***************************************************************************)
(* The in-memory record store of src/providers/mockDataProvider.ts: the    *)
(* collections of mockDatabase, the shared id counter nextId, and the      *)
(* handlers getList, getOne, create, update, deleteOne, custom (clone),    *)
(* getMany, updateMany and deleteMany.  Every handler awaits a timer and   *)
(* then runs its body to completion on the single JavaScript thread, so a  *)
(* handler body is one atomic action.                                      *)
(*                                                                         *)
(* A JavaScript object is a function from its field names to its values;   *)
(* {...a, ...b} is Merge(a, b).  A request key (BaseKey = number | string) *)
(* is a pair <<"number", n>> or <<"string", n>>, the string being the      *)
(* decimal text of n.  Stored fields have their declared types (numbers    *)
(* for id, style_id, variant_id).  A specDetails array and each of its     *)
(* entries carry a ref, the identity of the JavaScript object.             *)
(*                                                                         *)
(* pending holds the calls whose timer has not fired yet (the handler is   *)
(* suspended at its await), and issued records every value nextId++ has    *)
(* yielded, in the order it was taken.                                     *)
(***************************************************************************)
EXTENDS Integers, Sequences, FiniteSets, TLC

VARIABLES mockDatabase, nextId, last, pending, issued

vars == <<mockDatabase, nextId, last, pending, issued>>

-----------------------------------------------------------------------------
(* Bounds of the model *)

\* number of ids the allocator may hand out in one behaviour of Spec
MaxAlloc == 3

\* number of ids the allocator may hand out in one behaviour of TreeSpec
MaxTreeAlloc == 4

\* longest ids list given to getMany / updateMany / deleteMany
MaxIds == 2

\* an id no record ever has
MissingId == 404

\* number of ids the allocator may hand out in one behaviour of AsyncSpec,
\* and the number of calls in flight at one time
MaxAsyncAlloc == 4
MaxPending == 2

\* number of ids the allocator may hand out in one behaviour of QuerySpec
MaxQueryAlloc == 1

\* largest page number and largest pageSize asked of getList
MaxPage == 4
MaxPageSize == 3

-----------------------------------------------------------------------------
(* Program constants *)

InitialNextId == 10000

-----------------------------------------------------------------------------
(* JavaScript values *)

Merge(a, b) ==
  [f \in (DOMAIN a) \cup (DOMAIN b) |-> IF f \in DOMAIN b THEN b[f] ELSE a[f]]

Has(obj, f) == f \in DOMAIN obj

NumKey(n) == <<"number", n>>
StrKey(n) == <<"string", n>>

\* undefined, and a string that is not the text of a number
Undefined == <<"undefined">>
TextValue(s) == <<"text", s>>

\* Number(id)
ToNumber(key) == key[2]

\* String(item.id)
StringOf(n) == StrKey(n)

\* item.id == id : a number against a number or a numeric string
LooseEq(n, key) == n = ToNumber(key)

\* ids.includes(x) : SameValueZero, no coercion
Includes(ids, x) == \E i \in 1..Len(ids) : ids[i] = x

Range(s) == {s[i] : i \in 1..Len(s)}

\* Array.prototype.findIndex, 1-based; 0 stands for -1
FindIndex(arr, key) ==
  IF \E i \in 1..Len(arr) : LooseEq(arr[i].id, key)
  THEN CHOOSE i \in 1..Len(arr) :
         /\ LooseEq(arr[i].id, key)
         /\ \A j \in 1..(i - 1) : ~LooseEq(arr[j].id, key)
  ELSE 0

\* dataArray.splice(index, 1)
Splice(arr, index) ==
  [i \in 1..(Len(arr) - 1) |-> IF i < index THEN arr[i] ELSE arr[i + 1]]

ReplaceAt(arr, index, rec) == [arr EXCEPT ![index] = rec]

-----------------------------------------------------------------------------
(* Object identities of specDetails arrays and their entries *)

RefsOfRecord(rec) ==
  IF Has(rec, "specDetails")
  THEN {rec.specDetails.ref} \cup {e.ref : e \in Range(rec.specDetails.items)}
  ELSE {}

RefsOf(db) ==
  UNION {RefsOfRecord(db[r][i]) : <<r, i>> \in
           {<<r, i>> \in (DOMAIN db) \X (1..20) : i <= Len(db[r])}}

\* the k-th object allocated next: the k-th smallest identity not in use
RECURSIVE NthFree(_, _)
NthFree(used, k) ==
  LET r == CHOOSE q \in 1..(Cardinality(used) + 1) :
             q \notin used /\ \A p \in 1..(q - 1) : p \in used
  IN IF k = 1 THEN r ELSE NthFree(used \cup {r}, k - 1)

\* a new array literal written by a caller: [ {id, spec_value}, ... ]
NewArray(used, entries) ==
  [ref   |-> NthFree(used, 1),
   items |-> [i \in 1..Len(entries) |->
                Merge(entries[i], [ref |-> NthFree(used, i + 1)])]]

\* the variables object of a call, its specDetails (if any) a new array
Materialize(db, variables) ==
  IF Has(variables, "specDetails")
  THEN Merge(variables,
             [specDetails |-> NewArray(RefsOf(db), variables.specDetails)])
  ELSE variables

-----------------------------------------------------------------------------
(* Seed data and the initial state *)

mockStyles == <<[id |-> 1, style_no |-> "S1"]>>

mockVariants == <<[id |-> 101, style_id |-> 1, color_name |-> "red"]>>

mockBomItems ==
  <<[id |-> 1001, variant_id |-> 101, material_name |-> "m1",
     specDetails |-> [ref |-> 1,
                      items |-> <<[ref |-> 2, id |-> 5001, spec_value |-> "10"]>>]]>>

\* a resource name mockDatabase has no collection for at the start
UnknownResource == "colors"

Resources == {"styles", "variants", "bom_items", UnknownResource}

\* no call has a result the caller has yet to take.  The result of a call
\* is [op, resource, status, data]; held lists, for each record of data, the
\* place <<resource, position>> of the stored object that record is
Idle == [op |-> "idle", resource |-> "", status |-> "ok"]

Init ==
  /\ mockDatabase = [styles    |-> mockStyles,
                     variants  |-> mockVariants,
                     bom_items |-> mockBomItems]
  /\ nextId = InitialNextId
  /\ last = Idle
  /\ pending = <<>>
  /\ issued = <<>>

-----------------------------------------------------------------------------
(* Inputs of the calls *)

\* mockDatabase[resource] is undefined for an unknown name
Defined(db, resource) == resource \in DOMAIN db

Collection(db, resource) == IF Defined(db, resource) THEN db[resource] ELSE <<>>

IdsIn(db, resource) == {rec.id : rec \in Range(Collection(db, resource))}

\* request keys: every id of the collection and a missing one, as number or string
Keys(db, resource) ==
  {NumKey(n) : n \in IdsIn(db, resource) \cup {MissingId}}
    \cup {StrKey(n) : n \in IdsIn(db, resource) \cup {MissingId}}

RECURSIVE SeqsUpTo(_, _)
SeqsUpTo(S, n) ==
  IF n = 0 THEN {<<>>}
  ELSE LET shorter == SeqsUpTo(S, n - 1)
       IN shorter \cup {Append(s, x) : s \in {t \in shorter : Len(t) = n - 1}, x \in S}

\* ids lists of numbers, and of strings
NumLists(db, resource) ==
  SeqsUpTo({NumKey(n) : n \in IdsIn(db, resource) \cup {MissingId}}, MaxIds)

StrLists(db, resource) ==
  SeqsUpTo({StrKey(n) : n \in IdsIn(db, resource) \cup {MissingId}}, MaxIds)

\* an id the allocator has not issued yet when the first call arrives
FutureId == InitialNextId + 1

\* what callers send to create: the variant of the "new variant" form, the
\* same naming the field id, and a bom_item without specDetails
CreateVariables(resource) ==
  CASE resource = "variants"  -> {[style_id |-> 2, color_name |-> "blue"],
                                  [id |-> FutureId, style_id |-> 2, color_name |-> "blue"]}
    [] resource = "bom_items" -> {[variant_id |-> 101, material_name |-> "m2"]}
    [] OTHER                  -> {}

\* what callers send to update and updateMany
Patches(resource) ==
  CASE resource = "variants"  -> {[id |-> FutureId, color_name |-> "green"]}
    [] OTHER                  -> {}

\* filter lists of getList: none, eq on a parent id given as a number and as
\* a string, eq without a value, contains, an operator getList does not
\* know, and two filters
FilterLists ==
  {<<>>,
   <<[field |-> "variant_id", operator |-> "eq", value |-> NumKey(101)]>>,
   <<[field |-> "variant_id", operator |-> "eq", value |-> StrKey(101)]>>,
   <<[field |-> "variant_id", operator |-> "eq", value |-> Undefined]>>,
   <<[field |-> "material_name", operator |-> "contains", value |-> TextValue("M")]>>,
   <<[field |-> "variant_id", operator |-> "ne", value |-> NumKey(101)]>>,
   <<[field |-> "variant_id", operator |-> "eq", value |-> NumKey(101)],
     [field |-> "material_name", operator |-> "contains", value |-> NumKey(1)]>>}

\* pagination arguments: absent, or current and pageSize
NoPagination == <<>>
Paginations ==
  {NoPagination} \cup {[current |-> c, pageSize |-> n] : c \in 1..MaxPage, n \in 1..MaxPageSize}

\* what a caller writes into a record it was handed
CallerEdits == {[field |-> "color_name", value |-> "edited"]}

\* /api/styles/{styleId}/variants/{variantId}/clone, or a url of another shape
CloneUrl(styleId, variantId) == [clone |-> TRUE, styleId |-> styleId, variantId |-> variantId]
OtherUrl == [clone |-> FALSE]

Urls(db) == {CloneUrl(1, v) : v \in IdsIn(db, "variants") \cup {MissingId}} \cup {OtherUrl}

Methods == {"post", "get"}

NoPayload == <<>>
Payloads == {NoPayload, [new_color_name |-> ""], [new_color_name |-> "blue"]}

\* the calls a caller has in flight at the same time: create and clone
AsyncCalls ==
  {[op |-> "create", resource |-> "variants", variables |-> variables] :
     variables \in CreateVariables("variants")}
  \cup {[op |-> "create", resource |-> "bom_items", variables |-> variables] :
          variables \in CreateVariables("bom_items")}
  \cup {[op |-> "custom", url |-> CloneUrl(1, 101), method |-> "post",
         payload |-> [new_color_name |-> "blue"]]}

-----------------------------------------------------------------------------
(* getList: filters and the page window *)

\* the fields declared number in types/models; every other field is a string
NumberFields == {"id", "style_id", "variant_id"}

\* item[field] as a JavaScript value: undefined, a number, or a string that
\* is not the text of a number
FieldValue(item, field) ==
  IF ~Has(item, field) THEN Undefined
  ELSE IF field \in NumberFields THEN NumKey(item[field])
  ELSE TextValue(item[field])

\* a == b : a number and a numeric string compare as numbers, two strings
\* compare as strings, undefined equals no number and no string
LooseEquals(a, b) ==
  CASE a[1] \in {"number", "string"} /\ b[1] \in {"number", "string"} -> a[2] = b[2]
    [] a[1] = "text" /\ b[1] = "text" -> a[2] = b[2]
    [] OTHER -> FALSE

\* the characters of the strings of the model
Chars(s) ==
  CASE s = "red"   -> <<"r", "e", "d">>
    [] s = "blue"  -> <<"b", "l", "u", "e">>
    [] s = "green" -> <<"g", "r", "e", "e", "n">>
    [] s = "m1"    -> <<"m", "1">>
    [] s = "m2"    -> <<"m", "2">>
    [] s = "S1"    -> <<"S", "1">>
    [] s = "M"     -> <<"M">>
    [] s = "RE"    -> <<"R", "E">>
    [] s = "edited" -> <<"e", "d", "i", "t", "e", "d">>
    [] s = "undefined" -> <<"u", "n", "d", "e", "f", "i", "n", "e", "d">>
    [] s = ""      -> <<>>

Digit(d) == <<"0", "1", "2", "3", "4", "5", "6", "7", "8", "9">>[d + 1]

\* the decimal text of a natural number
RECURSIVE Digits(_)
Digits(n) == IF n < 10 THEN <<Digit(n)>> ELSE Append(Digits(n \div 10), Digit(n % 10))

\* String(x)
StringChars(x) ==
  CASE x[1] \in {"number", "string"} -> Digits(x[2])
    [] x[1] = "text" -> Chars(x[2])
    [] OTHER -> Chars("undefined")

LowerChar(c) ==
  CASE c = "S" -> "s" [] c = "M" -> "m" [] c = "R" -> "r" [] c = "E" -> "e"
    [] OTHER -> c

\* toLowerCase()
ToLowerCase(cs) == [i \in 1..Len(cs) |-> LowerChar(cs[i])]

\* text.includes(part)
IncludesText(text, part) ==
  \E k \in 0..(Len(text) - Len(part)) :
    \A i \in 1..Len(part) : text[k + i] = part[i]

\* !value
Falsy(value) ==
  \/ value[1] \in {"undefined", "null"}
  \/ value[1] = "number" /\ value[2] = 0
  \/ value[1] = "text" /\ value[2] = ""

\* does the item stay in data after the filter
Keeps(item, filter) ==
  IF filter.operator = "eq" /\ filter.value[1] \notin {"undefined", "null"}
  THEN LooseEquals(FieldValue(item, filter.field), filter.value)
  ELSE IF filter.operator = "contains" /\ ~Falsy(filter.value)
  THEN IncludesText(ToLowerCase(StringChars(FieldValue(item, filter.field))),
                    ToLowerCase(StringChars(filter.value)))
  ELSE TRUE

\* filters.forEach from the i-th filter on; data holds the positions in the
\* collection of the records still in data (data keeps the stored objects)
RECURSIVE ApplyFilters(_, _, _, _)
ApplyFilters(dataArray, data, filters, i) ==
  IF i > Len(filters)
  THEN data
  ELSE ApplyFilters(dataArray,
                    SelectSeq(data, LAMBDA p : Keeps(dataArray[p], filters[i])),
                    filters, i + 1)

\* Array.prototype.slice(start, end) with 0-based start and end
Slice(arr, start, end) ==
  LET len  == Len(arr)
      from == IF start < 0 THEN (IF len + start < 0 THEN 0 ELSE len + start)
              ELSE (IF start > len THEN len ELSE start)
      to   == IF end < 0 THEN (IF len + end < 0 THEN 0 ELSE len + end)
              ELSE (IF end > len THEN len ELSE end)
  IN SubSeq(arr, from + 1, to)

DefaultCurrent == 1
DefaultPageSize == 10

\* const { current = 1, pageSize = 10 } = pagination || {}
Current(pagination) ==
  IF Has(pagination, "current") THEN pagination.current ELSE DefaultCurrent

PageSize(pagination) ==
  IF Has(pagination, "pageSize") THEN pagination.pageSize ELSE DefaultPageSize

\* ListResult taking current as a 0-based page number
ListResultZeroBasedPage(db, resource, filters, pagination) ==
  LET dataArray == Collection(db, resource)
      data      == ApplyFilters(dataArray, [p \in 1..Len(dataArray) |-> p], filters, 1)
      start     == Current(pagination) * PageSize(pagination)
      end       == start + PageSize(pagination)
      pageData  == Slice(data, start, end)
  IN [data  |-> [k \in 1..Len(pageData) |-> dataArray[pageData[k]]],
      held  |-> [k \in 1..Len(pageData) |-> <<resource, pageData[k]>>],
      total |-> Len(data)]

\* what getList returns: the page (as positions in the collection and as the
\* records there) and the total
ListResult(db, resource, filters, pagination) ==
  LET dataArray == Collection(db, resource)
      data      == ApplyFilters(dataArray, [p \in 1..Len(dataArray) |-> p], filters, 1)
      start     == (Current(pagination) - 1) * PageSize(pagination)
      end       == start + PageSize(pagination)
      pageData  == Slice(data, start, end)
  IN [data  |-> [k \in 1..Len(pageData) |-> dataArray[pageData[k]]],
      held  |-> [k \in 1..Len(pageData) |-> <<resource, pageData[k]>>],
      total |-> Len(data)]

GetList(resource, filters, pagination) ==
  /\ last = Idle
  /\ LET result == ListResult(mockDatabase, resource, filters, pagination)
     IN last' = [op |-> "getList", resource |-> resource, status |-> "ok",
                 data |-> result.data, total |-> result.total,
                 held |-> result.held]
  /\ UNCHANGED <<mockDatabase, nextId, issued>>

(* getOne *)

GetOne(resource, id) ==
  /\ last = Idle
  /\ LET index == FindIndex(Collection(mockDatabase, resource), id)
     IN last' = IF index = 0
                THEN [op |-> "getOne", resource |-> resource, status |-> "NotFound"]
                ELSE [op |-> "getOne", resource |-> resource, status |-> "ok",
                      data |-> mockDatabase[resource][index],
                      held |-> <<<<resource, index>>>>]
  /\ UNCHANGED <<mockDatabase, nextId, issued>>

-----------------------------------------------------------------------------
(* create *)

\* Create taking the new id from the length of the collection
CreateCountsRecords(resource, variables) ==
  LET vs        == Materialize(mockDatabase, variables)
      newId     == InitialNextId + Len(Collection(mockDatabase, resource))
      newRecord == Merge([id |-> newId], vs)
  IN /\ last = Idle
     /\ nextId' = nextId + 1
     /\ issued' = Append(issued, newId)
     /\ mockDatabase' =
          IF Defined(mockDatabase, resource)
          THEN [mockDatabase EXCEPT ![resource] = Append(@, newRecord)]
          ELSE mockDatabase @@ (resource :> <<newRecord>>)
     /\ last' = [op |-> "create", resource |-> resource,
                 status |-> "ok", data |-> newRecord,
                 held |-> <<<<resource, Len(Collection(mockDatabase, resource)) + 1>>>>]

Create(resource, variables) ==
  LET vs        == Materialize(mockDatabase, variables)
      newId     == nextId
      newRecord == Merge([id |-> newId], vs)
  IN /\ last = Idle
     /\ nextId' = nextId + 1
     /\ issued' = Append(issued, newId)
     /\ mockDatabase' =
          IF Defined(mockDatabase, resource)
          THEN [mockDatabase EXCEPT ![resource] = Append(@, newRecord)]
          ELSE mockDatabase @@ (resource :> <<newRecord>>)
     /\ last' = [op |-> "create", resource |-> resource,
                 status |-> "ok", data |-> newRecord,
                 held |-> <<<<resource, Len(Collection(mockDatabase, resource)) + 1>>>>]

(* update *)

\* { ...dataArray[index], ...variables, id: Number(id) }
UpdatedRecord(record, variables, id) ==
  Merge(Merge(record, variables), [id |-> ToNumber(id)])

Update(resource, id, variables) ==
  /\ last = Idle
  /\ LET vs        == Materialize(mockDatabase, variables)
         dataArray == Collection(mockDatabase, resource)
         index     == FindIndex(dataArray, id)
     IN IF index = 0
        THEN /\ last' = [op |-> "update", resource |-> resource,
                         status |-> "NotFound"]
             /\ UNCHANGED <<mockDatabase, nextId, issued>>
        ELSE LET updatedRecord == UpdatedRecord(dataArray[index], vs, id)
             IN /\ mockDatabase' = [mockDatabase EXCEPT ![resource] =
                                      ReplaceAt(@, index, updatedRecord)]
                /\ last' = [op |-> "update", resource |-> resource,
                            status |-> "ok", data |-> updatedRecord,
                            held |-> <<<<resource, index>>>>]
                /\ UNCHANGED <<nextId, issued>>

(* deleteOne *)

\* Cascade without the rule variants -> bom_items
CascadeStylesOnly(db, resource, id) ==
  IF resource = "styles"
  THEN [db EXCEPT !.variants =
          SelectSeq(@, LAMBDA v : ~(Has(v, "style_id") /\ v.style_id = ToNumber(id)))]
  ELSE db

\* Cascade composing the two rules: a style takes the bom_items of its variants along
CascadeTransitive(db, resource, id) ==
  IF resource = "styles"
  THEN LET gone == {v.id : v \in {w \in Range(db.variants) :
                                    Has(w, "style_id") /\ w.style_id = ToNumber(id)}}
       IN [db EXCEPT !.variants =
                       SelectSeq(@, LAMBDA v : ~(Has(v, "style_id") /\ v.style_id = ToNumber(id))),
                     !.bom_items =
                       SelectSeq(@, LAMBDA b : ~(Has(b, "variant_id") /\ b.variant_id \in gone))]
  ELSE IF resource = "variants"
  THEN [db EXCEPT !.bom_items =
          SelectSeq(@, LAMBDA b : ~(Has(b, "variant_id") /\ b.variant_id = ToNumber(id)))]
  ELSE db

\* the cascade of deleteOne, after the primary record is spliced out
Cascade(db, resource, id) ==
  IF resource = "styles"
  THEN [db EXCEPT !.variants =
          SelectSeq(@, LAMBDA v : ~(Has(v, "style_id") /\ v.style_id = ToNumber(id)))]
  ELSE IF resource = "variants"
  THEN [db EXCEPT !.bom_items =
          SelectSeq(@, LAMBDA b : ~(Has(b, "variant_id") /\ b.variant_id = ToNumber(id)))]
  ELSE db

DeleteOne(resource, id) ==
  /\ last = Idle
  /\ LET dataArray == Collection(mockDatabase, resource)
         index     == FindIndex(dataArray, id)
     IN IF index = 0
        THEN /\ last' = [op |-> "deleteOne", resource |-> resource,
                         status |-> "NotFound"]
             /\ UNCHANGED <<mockDatabase, nextId, issued>>
        ELSE LET deletedRecord == dataArray[index]
                 spliced == [mockDatabase EXCEPT ![resource] = Splice(@, index)]
             IN /\ mockDatabase' = Cascade(spliced, resource, id)
                /\ last' = [op |-> "deleteOne", resource |-> resource,
                            status |-> "ok", data |-> deletedRecord]
                /\ UNCHANGED <<nextId, issued>>

-----------------------------------------------------------------------------
(* custom: the deep clone of a variant *)

\* ClonedSpecDetails building each entry from its new id alone
ClonedSpecDetailsIdOnly(specDetails, firstId, used) ==
  [ref   |-> NthFree(used, 1),
   items |-> [i \in 1..Len(specDetails.items) |->
                [id |-> firstId + (i - 1), ref |-> NthFree(used, i + 1)]]]

\* bomItem.specDetails.map(spec => ({ ...spec, id: nextId++ })), the ids
\* counted from firstId, the new objects taken from the unused identities
ClonedSpecDetails(specDetails, firstId, used) ==
  [ref   |-> NthFree(used, 1),
   items |-> [i \in 1..Len(specDetails.items) |->
                Merge(specDetails.items[i],
                      [id |-> firstId + (i - 1), ref |-> NthFree(used, i + 1)])]]

\* CloneBomItem with clonedSpecCount counting the cloned arrays, not their lines
CloneBomItemCountsArrays(st, bomItem, newVariantId) ==
  LET newBomId == st.nextId
  IN IF ~Has(bomItem, "specDetails")
     THEN [st EXCEPT !.nextId = newBomId + 1, !.thrown = TRUE,
                     !.issued = Append(@, newBomId)]
     ELSE LET used == RefsOf([st.db EXCEPT !.bom_items = st.bom_items])
              clonedSpecDetails ==
                ClonedSpecDetails(bomItem.specDetails, newBomId + 1, used)
              newBomItem ==
                Merge(bomItem, [id |-> newBomId, variant_id |-> newVariantId,
                                specDetails |-> clonedSpecDetails])
          IN [st EXCEPT !.nextId = newBomId + 1 + Len(clonedSpecDetails.items),
                        !.issued = Append(@, newBomId)
                                     \o [i \in 1..Len(clonedSpecDetails.items) |->
                                           clonedSpecDetails.items[i].id],
                        !.bom_items = Append(@, newBomItem),
                        !.clonedBomCount = @ + 1,
                        !.clonedSpecCount = @ + 1]

\* CloneBomItem taking the ids of the spec lines before the id of the bom_item
CloneBomItemSpecsFirst(st, bomItem, newVariantId) ==
  IF ~Has(bomItem, "specDetails")
  THEN [st EXCEPT !.thrown = TRUE]
  ELSE LET used == RefsOf([st.db EXCEPT !.bom_items = st.bom_items])
           clonedSpecDetails ==
             ClonedSpecDetails(bomItem.specDetails, st.nextId, used)
           newBomId == st.nextId + Len(clonedSpecDetails.items)
           newBomItem ==
             Merge(bomItem, [id |-> newBomId, variant_id |-> newVariantId,
                             specDetails |-> clonedSpecDetails])
       IN [st EXCEPT !.nextId = newBomId + 1,
                     !.issued = @ \o [i \in 1..Len(clonedSpecDetails.items) |->
                                        clonedSpecDetails.items[i].id]
                                  \o <<newBomId>>,
                     !.bom_items = Append(@, newBomItem),
                     !.clonedBomCount = @ + 1,
                     !.clonedSpecCount = @ + Len(clonedSpecDetails.items)]

\* one turn of sourceBomItems.forEach; st.thrown once reading
\* bomItem.specDetails.map of an undefined specDetails has thrown
CloneBomItem(st, bomItem, newVariantId) ==
  LET newBomId == st.nextId
  IN IF ~Has(bomItem, "specDetails")
     THEN [st EXCEPT !.nextId = newBomId + 1, !.thrown = TRUE,
                     !.issued = Append(@, newBomId)]
     ELSE LET used == RefsOf([st.db EXCEPT !.bom_items = st.bom_items])
              clonedSpecDetails ==
                ClonedSpecDetails(bomItem.specDetails, newBomId + 1, used)
              newBomItem ==
                Merge(bomItem, [id |-> newBomId, variant_id |-> newVariantId,
                                specDetails |-> clonedSpecDetails])
          IN [st EXCEPT !.nextId = newBomId + 1 + Len(clonedSpecDetails.items),
                        !.issued = Append(@, newBomId)
                                     \o [i \in 1..Len(clonedSpecDetails.items) |->
                                           clonedSpecDetails.items[i].id],
                        !.bom_items = Append(@, newBomItem),
                        !.clonedBomCount = @ + 1,
                        !.clonedSpecCount = @ + Len(clonedSpecDetails.items)]

RECURSIVE CloneLoop(_, _, _, _)
CloneLoop(st, sourceBomItems, i, newVariantId) ==
  IF i > Len(sourceBomItems) \/ st.thrown
  THEN st
  ELSE CloneLoop(CloneBomItem(st, sourceBomItems[i], newVariantId),
                 sourceBomItems, i + 1, newVariantId)


\* mockDatabase.variants.find(v => v.id === sourceVariantId), 0 for undefined
FindVariant(variants, sourceVariantId) ==
  IF \E i \in 1..Len(variants) : variants[i].id = sourceVariantId
  THEN CHOOSE i \in 1..Len(variants) :
         /\ variants[i].id = sourceVariantId
         /\ \A j \in 1..(i - 1) : variants[j].id # sourceVariantId
  ELSE 0

\* !new_color_name, with { new_color_name } = payload || {}
MissingColorName(payload) ==
  ~Has(payload, "new_color_name") \/ payload.new_color_name = ""

\* the clone from step 2 on: the store, the counter and the ids taken
\* (issued) when the handler returns or throws
CloneRun(db, firstId, sourceVariantId, new_color_name) ==
  LET sourceVariant  == db.variants[FindVariant(db.variants, sourceVariantId)]
      newVariantId   == firstId
      newVariant     == Merge(sourceVariant,
                              [id |-> newVariantId, color_name |-> new_color_name])
      withVariant    == [db EXCEPT !.variants = Append(@, newVariant)]
      sourceBomItems == SelectSeq(withVariant.bom_items,
                               LAMBDA b : Has(b, "variant_id") /\ b.variant_id = sourceVariantId)
      start          == [db |-> withVariant, bom_items |-> withVariant.bom_items,
                         nextId |-> newVariantId + 1, thrown |-> FALSE,
                         issued |-> <<newVariantId>>,
                         clonedBomCount |-> 0, clonedSpecCount |-> 0]
  IN CloneLoop(start, sourceBomItems, 1, newVariantId)

Custom(url, method, payload) ==
  /\ last = Idle
  /\ IF url.clone /\ method = "post"
     THEN LET sourceVariantId == url.variantId
              request == [op |-> "custom", resource |-> "variants"]
          IN IF MissingColorName(payload)
             THEN /\ last' = Merge(request, [status |-> "Validation"])
                  /\ UNCHANGED <<mockDatabase, nextId, issued>>
             ELSE IF FindVariant(mockDatabase.variants, sourceVariantId) = 0
             THEN /\ last' = Merge(request, [status |-> "NotFound"])
                  /\ UNCHANGED <<mockDatabase, nextId, issued>>
             ELSE LET end == CloneRun(mockDatabase, nextId, sourceVariantId,
                                      payload.new_color_name)
                  IN /\ mockDatabase' = [end.db EXCEPT !.bom_items = end.bom_items]
                     /\ nextId' = end.nextId
                     /\ issued' = issued \o end.issued
                     /\ last' =
                          IF end.thrown
                          THEN Merge(request, [status |-> "TypeError"])
                          ELSE Merge(request,
                                     [status |-> "ok",
                                      data |-> [id |-> nextId,
                                                color_name |-> payload.new_color_name,
                                                cloned_bom_count |-> end.clonedBomCount,
                                                cloned_spec_count |-> end.clonedSpecCount]])
     ELSE /\ last' = [op |-> "custom", resource |-> "variants",
                      status |-> "Unimplemented"]
          /\ UNCHANGED <<mockDatabase, nextId, issued>>

-----------------------------------------------------------------------------
(* getMany, updateMany, deleteMany *)

GetMany(resource, ids) ==
  /\ last = Idle
  /\ LET data == SelectSeq(Collection(mockDatabase, resource),
                        LAMBDA item : Includes(ids, StringOf(item.id)))
     IN /\ last' = [op |-> "getMany", resource |-> resource,
                    status |-> "ok", data |-> data]
        /\ UNCHANGED <<mockDatabase, nextId, issued>>

\* dataArray[index] = { ...dataArray[index], ...variables }
MergedRecord(record, variables) == Merge(record, variables)

\* ids.forEach of updateMany from the i-th id on; st = [dataArray, updatedIds]
RECURSIVE UpdateManyLoop(_, _, _, _)
UpdateManyLoop(st, ids, i, variables) ==
  IF i > Len(ids)
  THEN st
  ELSE LET index == FindIndex(st.dataArray, ids[i])
       IN UpdateManyLoop(
            IF index # 0
            THEN [dataArray  |-> ReplaceAt(st.dataArray, index,
                                           MergedRecord(st.dataArray[index], variables)),
                  updatedIds |-> Append(st.updatedIds, ids[i])]
            ELSE st,
            ids, i + 1, variables)

UpdateMany(resource, ids, variables) ==
  /\ last = Idle
  /\ LET vs  == Materialize(mockDatabase, variables)
         end == UpdateManyLoop([dataArray  |-> Collection(mockDatabase, resource),
                                updatedIds |-> <<>>], ids, 1, vs)
     IN /\ mockDatabase' = IF Defined(mockDatabase, resource)
                           THEN [mockDatabase EXCEPT ![resource] = end.dataArray]
                           ELSE mockDatabase
        /\ last' = [op |-> "updateMany", resource |-> resource,
                    status |-> "ok", data |-> end.updatedIds]
        /\ UNCHANGED <<nextId, issued>>

\* ids.forEach of deleteMany from the i-th id on; st = [dataArray, deletedIds]
RECURSIVE DeleteManyLoop(_, _, _)
DeleteManyLoop(st, ids, i) ==
  IF i > Len(ids)
  THEN st
  ELSE LET index == FindIndex(st.dataArray, ids[i])
       IN DeleteManyLoop(
            IF index # 0
            THEN [dataArray  |-> Splice(st.dataArray, index),
                  deletedIds |-> Append(st.deletedIds, ids[i])]
            ELSE st,
            ids, i + 1)

DeleteMany(resource, ids) ==
  /\ last = Idle
  /\ LET end == DeleteManyLoop([dataArray  |-> Collection(mockDatabase, resource),
                                deletedIds |-> <<>>], ids, 1)
     IN /\ mockDatabase' = IF Defined(mockDatabase, resource)
                           THEN [mockDatabase EXCEPT ![resource] = end.dataArray]
                           ELSE mockDatabase
        /\ last' = [op |-> "deleteMany", resource |-> resource,
                    status |-> "ok", data |-> end.deletedIds]
        /\ UNCHANGED <<nextId, issued>>

-----------------------------------------------------------------------------
(* the caller *)

\* the caller assigns a field of the k-th record it was handed: the record
\* of the result and the stored object at held[k] are one object
CallerWrite(k, edit) ==
  /\ Has(last, "held")
  /\ k \in 1..Len(last.held)
  /\ LET place   == last.held[k]
         written == [f \in {edit.field} |-> edit.value]
     IN /\ mockDatabase' = [mockDatabase EXCEPT ![place[1]][place[2]] = Merge(@, written)]
        /\ last' = [last EXCEPT !.data = IF last.op = "getList"
                                         THEN [@ EXCEPT ![k] = Merge(@, written)]
                                         ELSE Merge(@, written)]
  /\ UNCHANGED <<nextId, issued>>

\* the promise of the call settles and the caller takes its value or error
Settle ==
  /\ last # Idle
  /\ last' = Idle
  /\ UNCHANGED <<mockDatabase, nextId, pending, issued>>

\* the allocator has issued at most limit ids after the step
Within(limit) == nextId' <= InitialNextId + limit

Next ==
  \/ \E resource \in Resources :
       \E variables \in CreateVariables(resource) :
         Create(resource, variables) /\ Within(MaxAlloc) /\ UNCHANGED pending
  \/ \E resource \in Resources :
       \E id \in Keys(mockDatabase, resource) :
         \E variables \in Patches(resource) :
           Update(resource, id, variables) /\ UNCHANGED pending
  \/ \E resource \in Resources :
       \E id \in Keys(mockDatabase, resource) :
         DeleteOne(resource, id) /\ UNCHANGED pending
  \/ \E url \in Urls(mockDatabase) :
       \E method \in Methods : \E payload \in Payloads :
         Custom(url, method, payload) /\ Within(MaxAlloc) /\ UNCHANGED pending
  \/ \E resource \in Resources :
       \E ids \in NumLists(mockDatabase, resource) \cup StrLists(mockDatabase, resource) :
         GetMany(resource, ids) /\ UNCHANGED pending
  \/ \E resource \in Resources :
       \E ids \in NumLists(mockDatabase, resource) :
         \E variables \in Patches(resource) :
           UpdateMany(resource, ids, variables) /\ UNCHANGED pending
  \/ \E resource \in Resources :
       \E ids \in NumLists(mockDatabase, resource) :
         DeleteMany(resource, ids) /\ UNCHANGED pending
  \/ Settle

Spec == Init /\ [][Next]_vars

-----------------------------------------------------------------------------
(* The hierarchy under create, clone and deleteOne, from a store seeded with *)
(* a variant of two bom_items, the first of one spec line, and a second      *)
(* variant of one bom_item                                                   *)

treeVariants ==
  <<[id |-> 101, style_id |-> 1, color_name |-> "red"],
    [id |-> 102, style_id |-> 2, color_name |-> "red"]>>

treeBomItems ==
  <<[id |-> 1001, variant_id |-> 101, material_name |-> "m1",
     specDetails |-> [ref |-> 1,
                      items |-> <<[ref |-> 2, id |-> 5001, spec_value |-> "10"]>>]],
    [id |-> 1002, variant_id |-> 101, material_name |-> "m2",
     specDetails |-> [ref |-> 3, items |-> <<>>]],
    [id |-> 1003, variant_id |-> 102, material_name |-> "m1",
     specDetails |-> [ref |-> 4,
                      items |-> <<[ref |-> 5, id |-> 5002, spec_value |-> "20"]>>]]>>

TreeInit ==
  /\ mockDatabase = [styles    |-> mockStyles,
                     variants  |-> treeVariants,
                     bom_items |-> treeBomItems]
  /\ nextId = InitialNextId
  /\ last = Idle
  /\ pending = <<>>
  /\ issued = <<>>

TreeNext ==
  \/ \E resource \in Resources :
       \E variables \in CreateVariables(resource) :
         Create(resource, variables) /\ Within(MaxTreeAlloc) /\ UNCHANGED pending
  \/ \E resource \in Resources :
       \E id \in Keys(mockDatabase, resource) :
         DeleteOne(resource, id) /\ UNCHANGED pending
  \/ \E url \in Urls(mockDatabase) :
       \E method \in Methods : \E payload \in Payloads :
         Custom(url, method, payload) /\ Within(MaxTreeAlloc) /\ UNCHANGED pending
  \/ Settle

TreeSpec == TreeInit /\ [][TreeNext]_vars

-----------------------------------------------------------------------------
(* Calls in flight: a handler is invoked and suspends at                    *)
(* await new Promise(resolve => setTimeout(resolve, ms)); when its timer    *)
(* fires the rest of the handler runs without another await.  The timers of *)
(* calls started at different times fire in any order.                      *)

\* the caller invokes create or custom: the handler runs up to its await
Start(call) ==
  /\ last = Idle
  /\ Len(pending) < MaxPending
  /\ pending' = Append(pending, call)
  /\ UNCHANGED <<mockDatabase, nextId, last, issued>>

\* the timer of the i-th call in flight fires and its handler runs to the end
Run(i) ==
  /\ i \in 1..Len(pending)
  /\ pending' = Splice(pending, i)
  /\ LET call == pending[i]
     IN IF call.op = "create"
        THEN Create(call.resource, call.variables)
        ELSE Custom(call.url, call.method, call.payload)

AsyncNext ==
  \/ \E call \in AsyncCalls : Start(call)
  \/ \E i \in 1..MaxPending : Run(i) /\ Within(MaxAsyncAlloc)
  \/ \E resource \in Resources :
       \E id \in Keys(mockDatabase, resource) :
         DeleteOne(resource, id) /\ UNCHANGED pending
  \/ Settle

AsyncSpec == Init /\ [][AsyncNext]_vars

-----------------------------------------------------------------------------
(* Reading the store: getList and getOne, and a caller that writes into the *)
(* records it was handed, over the store of the hierarchy                   *)

QueryNext ==
  \/ \E resource \in Resources :
       \E filters \in FilterLists : \E pagination \in Paginations :
         GetList(resource, filters, pagination) /\ UNCHANGED pending
  \/ \E resource \in Resources :
       \E id \in Keys(mockDatabase, resource) :
         GetOne(resource, id) /\ UNCHANGED pending
  \/ \E resource \in Resources :
       \E variables \in CreateVariables(resource) :
         Create(resource, variables) /\ Within(MaxQueryAlloc) /\ UNCHANGED pending
  \/ \E resource \in Resources :
       \E id \in Keys(mockDatabase, resource) :
         \E variables \in Patches(resource) :
           Update(resource, id, variables) /\ UNCHANGED pending
  \/ \E k \in 1..MaxPageSize : \E edit \in CallerEdits :
       CallerWrite(k, edit) /\ UNCHANGED pending
  \/ Settle

QuerySpec == TreeInit /\ [][QueryNext]_vars

-----------------------------------------------------------------------------
(* Vocabulary of the properties *)

SpecLines(rec) == IF Has(rec, "specDetails") THEN rec.specDetails.items ELSE <<>>

SpecIds(rec) == {e.id : e \in Range(SpecLines(rec))}

RECURSIVE SpecLineCount(_)
SpecLineCount(records) ==
  IF records = <<>> THEN 0
  ELSE Len(SpecLines(Head(records))) + SpecLineCount(Tail(records))

\* every id of a variant, a bom_item or a spec line in db
TreeIds(db) ==
  IdsIn(db, "variants") \cup IdsIn(db, "bom_items")
    \cup UNION {SpecIds(b) : b \in Range(db.bom_items)}

\* the records a call appended to a collection
Appended(resource) ==
  SubSeq(mockDatabase'[resource], Len(mockDatabase[resource]) + 1,
         Len(mockDatabase'[resource]))

\* the step is a clone request: custom with the clone url and method post
IsClone(url, method, payload) ==
  Custom(url, method, payload) /\ url.clone /\ method = "post"

-----------------------------------------------------------------------------
(* C1: in every reachable state the id values of the records of each       *)
(* collection are pairwise distinct.                                       *)
C1_UniqueIds ==
  \A resource \in DOMAIN mockDatabase :
    \A i, j \in 1..Len(mockDatabase[resource]) :
      i # j => mockDatabase[resource][i].id # mockDatabase[resource][j].id

(* C2: a cloneVariant call completes fully or fails leaving every          *)
(* collection as it was: an empty new_color_name fails with a validation   *)
(* error, an absent source variant fails with NotFound, and no failing     *)
(* call leaves a variant or a bom_item inserted.                           *)
C2_CloneAllOrNothing ==
  [][last'.op = "custom" =>
     \A url \in Urls(mockDatabase), method \in Methods, payload \in Payloads :
       IsClone(url, method, payload) =>
         /\ MissingColorName(payload) => last'.status = "Validation"
         /\ (~MissingColorName(payload)
               /\ url.variantId \notin IdsIn(mockDatabase, "variants"))
              => last'.status = "NotFound"
         /\ last'.status # "ok" => mockDatabase' = mockDatabase]_vars

(* C3: after a successful cloneVariant the ids of the new variant, of the  *)
(* cloned bom_items and of the cloned spec lines are distinct from each    *)
(* other and from every id of a variant, bom_item or spec line that        *)
(* existed before, and no cloned bom_item shares its specDetails array or  *)
(* an entry of it with a source bom_item.                                  *)
C3_CloneFreshIdentities ==
  [][last'.op = "custom" =>
     \A url \in Urls(mockDatabase), method \in Methods, payload \in Payloads :
       (IsClone(url, method, payload) /\ last'.status = "ok") =>
         LET newVariants == Appended("variants")
             clonedBoms  == Appended("bom_items")
             newIds      == {v.id : v \in Range(newVariants)}
                              \cup {b.id : b \in Range(clonedBoms)}
                              \cup UNION {SpecIds(b) : b \in Range(clonedBoms)}
             sources     == {b \in Range(mockDatabase.bom_items) :
                               Has(b, "variant_id") /\ b.variant_id = url.variantId}
         IN /\ Cardinality(newIds) =
                 Len(newVariants) + Len(clonedBoms) + SpecLineCount(clonedBoms)
            /\ newIds \cap TreeIds(mockDatabase) = {}
            /\ \A c \in Range(clonedBoms) : \A b \in sources :
                 RefsOfRecord(c) \cap RefsOfRecord(b) = {}]_vars

(* C4: for a successful cloneVariant(v, name) cloned_bom_count is the       *)
(* number of bom_items whose variant_id is v at the call, cloned_spec_count *)
(* the number of spec lines in their specDetails, and exactly that many     *)
(* bom_items and spec lines are added to the store under the new variant.   *)
C4_CloneCounts ==
  [][last'.op = "custom" =>
     \A url \in Urls(mockDatabase), method \in Methods, payload \in Payloads :
       (IsClone(url, method, payload) /\ last'.status = "ok") =>
         LET old       == mockDatabase.bom_items
             sourceAt  == {i \in 1..Len(old) :
                             Has(old[i], "variant_id") /\ old[i].variant_id = url.variantId}
             specTotal == SpecLineCount(
                            SelectSeq(old, LAMBDA b : Has(b, "variant_id")
                                                        /\ b.variant_id = url.variantId))
             added     == Appended("bom_items")
         IN /\ last'.data.cloned_bom_count = Cardinality(sourceAt)
            /\ last'.data.cloned_spec_count = specTotal
            /\ SubSeq(mockDatabase'.bom_items, 1, Len(old)) = old
            /\ Len(added) = Cardinality(sourceAt)
            /\ SpecLineCount(added) = specTotal
            /\ \A b \in Range(added) : b.variant_id = last'.data.id]_vars

\* a clone of two bom_items and one spec line settled, with a bom_item of
\* another variant in the store
C4_Witness ==
  /\ last.op = "custom" /\ last.status = "ok"
  /\ last.data.cloned_bom_count = 2
  /\ last.data.cloned_spec_count = 1
  /\ \E b \in Range(mockDatabase.bom_items) : b.variant_id = 102

\* dataArray.splice(index, 1) happened at the first record whose id is key
RemovedFirst(old, new, key) ==
  \E index \in 1..Len(old) :
    /\ old[index].id = ToNumber(key)
    /\ \A j \in 1..(index - 1) : old[j].id # ToNumber(key)
    /\ Len(new) = Len(old) - 1
    /\ \A j \in 1..Len(new) : new[j] = IF j < index THEN old[j] ELSE old[j + 1]
    /\ last'.data = old[index]

(* C5: after a successful deleteOne on styles with id s no variant whose   *)
(* style_id is s remains; after one on variants with id v no bom_item      *)
(* whose variant_id is v remains; the deleted primary record is the one    *)
(* returned and is no longer in its collection.                            *)
C5_DeleteOneCascade ==
  [][last'.op = "deleteOne" =>
     \A resource \in Resources :
       \A id \in Keys(mockDatabase, resource) :
         (DeleteOne(resource, id) /\ last'.status = "ok") =>
           /\ RemovedFirst(mockDatabase[resource], mockDatabase'[resource], id)
           /\ resource = "styles" =>
                \A v \in Range(mockDatabase'.variants) :
                  ~(Has(v, "style_id") /\ v.style_id = ToNumber(id))
           /\ resource = "variants" =>
                \A b \in Range(mockDatabase'.bom_items) :
                  ~(Has(b, "variant_id") /\ b.variant_id = ToNumber(id))]_vars

\* a style was deleted, its variants went and a variant of another style stays
C5_Witness ==
  /\ last.op = "deleteOne" /\ last.resource = "styles" /\ last.status = "ok"
  /\ mockDatabase.variants # <<>>
  /\ 101 \notin IdsIn(mockDatabase, "variants")
  /\ \A v \in Range(mockDatabase.variants) : v.style_id # last.data.id

(* C6: deleteOne on styles leaves the bom_items collection unchanged, the  *)
(* bom_items of the removed variants included; deleteOne on a resource     *)
(* other than styles and variants changes no collection but the one named. *)
C6_DeleteOneFrame ==
  [][last'.op = "deleteOne" =>
     \A resource \in Resources :
       \A id \in Keys(mockDatabase, resource) :
         DeleteOne(resource, id) =>
           /\ DOMAIN mockDatabase' = DOMAIN mockDatabase
           /\ resource = "styles" => mockDatabase'.bom_items = mockDatabase.bom_items
           /\ resource \notin {"styles", "variants"} =>
                \A other \in DOMAIN mockDatabase \ {resource} :
                  mockDatabase'[other] = mockDatabase[other]]_vars

\* a style was deleted and bom_items of a variant it took along are still there
C6_Witness ==
  /\ last.op = "deleteOne" /\ last.resource = "styles" /\ last.status = "ok"
  /\ \E b \in Range(mockDatabase.bom_items) :
       /\ b.variant_id = 101
       /\ b.variant_id \notin IdsIn(mockDatabase, "variants")

\* the request keys of ids that name a record of the collection
Present(db, resource, ids) ==
  {key \in Range(ids) : ToNumber(key) \in IdsIn(db, resource)}

OthersUnchanged(resource) ==
  /\ DOMAIN mockDatabase' = DOMAIN mockDatabase
  /\ \A other \in DOMAIN mockDatabase \ {resource} :
       mockDatabase'[other] = mockDatabase[other]

(* C7: deleteMany(resource, ids) removes from the collection exactly the   *)
(* records whose id is in ids, returns exactly the ids that were present,  *)
(* skips missing ids without error and changes no other collection.        *)
C7_DeleteManyExact ==
  [][last'.op = "deleteMany" =>
     \A resource \in Resources :
       \A ids \in NumLists(mockDatabase, resource) :
         DeleteMany(resource, ids) =>
           /\ last'.status = "ok"
           /\ Collection(mockDatabase', resource) =
                SelectSeq(Collection(mockDatabase, resource),
                          LAMBDA rec : \A key \in Range(ids) : rec.id # ToNumber(key))
           /\ Range(last'.data) = Present(mockDatabase, resource, ids)
           /\ OthersUnchanged(resource)]_vars

(* C8: updateMany(resource, ids, patch) merges patch into every record of  *)
(* the collection whose id is in ids, leaves every other record and        *)
(* collection unchanged, never fails for a missing id and returns exactly  *)
(* the ids that were found.                                                *)
C8_UpdateManyExact ==
  [][last'.op = "updateMany" =>
     \A resource \in Resources :
       \A ids \in NumLists(mockDatabase, resource) :
         \A variables \in Patches(resource) :
           UpdateMany(resource, ids, variables) =>
             LET old == Collection(mockDatabase, resource)
                 new == Collection(mockDatabase', resource)
             IN /\ last'.status = "ok"
                /\ Len(new) = Len(old)
                /\ \A i \in 1..Len(old) :
                     new[i] = IF \E key \in Range(ids) : old[i].id = ToNumber(key)
                              THEN Merge(old[i], variables)
                              ELSE old[i]
                /\ Range(last'.data) = Present(mockDatabase, resource, ids)
                /\ OthersUnchanged(resource)]_vars

(* C9: the id of a stored record never changes: after update or updateMany *)
(* with any patch, one naming the field id included, every record of the   *)
(* collection has the id it had before the call.                           *)
C9_IdImmutable ==
  [][(last'.op \in {"update", "updateMany"}) =>
       LET old == Collection(mockDatabase, last'.resource)
           new == Collection(mockDatabase', last'.resource)
       IN /\ Len(new) = Len(old)
          /\ \A i \in 1..Len(old) : new[i].id = old[i].id]_vars

(* C10: getMany(resource, ids) returns, for ids given as numbers or as     *)
(* strings, exactly the records of the collection whose id is among ids,   *)
(* omits missing ids without error and changes no state.                   *)
C10_GetManyExact ==
  [][last'.op = "getMany" =>
     \A resource \in Resources :
       \A ids \in NumLists(mockDatabase, resource) \cup StrLists(mockDatabase, resource) :
         GetMany(resource, ids) =>
           /\ last'.status = "ok"
           /\ last'.data =
                SelectSeq(Collection(mockDatabase, resource),
                          LAMBDA rec : \E key \in Range(ids) : rec.id = ToNumber(key))
           /\ UNCHANGED <<mockDatabase, nextId, issued>>]_vars

\* the pages current = c..pages of size n, one after the other
RECURSIVE ConcatPages(_, _, _, _, _, _)
ConcatPages(db, resource, filters, n, c, pages) ==
  IF c > pages THEN <<>>
  ELSE ListResult(db, resource, filters, [current |-> c, pageSize |-> n]).data
         \o ConcatPages(db, resource, filters, n, c + 1, pages)

(* C11: for any collection, filter list and pageSize n >= 1, on one store  *)
(* the pages getList returns for current = 1..ceil(total/n), one after the *)
(* other, are exactly the records passing every filter, in collection      *)
(* order; every page reports the filtered count as total; and the page     *)
(* after the last is empty, not an error.  Stated of the store each time   *)
(* the caller is about to call (every store the program reaches is the     *)
(* store of such a state).                                                 *)
C11_PagesCoverFiltered ==
  last = Idle =>
    \A resource \in Resources :
      \A filters \in FilterLists :
        \A n \in 1..MaxPageSize :
          LET filtered == SelectSeq(Collection(mockDatabase, resource),
                                    LAMBDA rec : \A i \in 1..Len(filters) :
                                                   Keeps(rec, filters[i]))
              total    == ListResult(mockDatabase, resource, filters,
                                     [current |-> 1, pageSize |-> n]).total
              pages    == (total + n - 1) \div n
          IN /\ ConcatPages(mockDatabase, resource, filters, n, 1, pages) = filtered
             /\ \A c \in 1..(pages + 1) :
                  ListResult(mockDatabase, resource, filters,
                             [current |-> c, pageSize |-> n]).total = Len(filtered)
             /\ ListResult(mockDatabase, resource, filters,
                           [current |-> pages + 1, pageSize |-> n]).data = <<>>

\* getList returned the second page of a filtered list: one record, the
\* second of the two that pass, out of a collection of more
C11_Witness ==
  /\ last.op = "getList" /\ last.status = "ok"
  /\ last.total = 2
  /\ last.held = <<<<"bom_items", 2>>>>
  /\ Len(mockDatabase.bom_items) > 2

(* C12: no record handed to a caller by getList, getOne, create or update  *)
(* is an object of the store: when the caller writes a field of a record   *)
(* it was handed, every collection holds what it held before, so a later   *)
(* getList or getOne returns what it would have returned.                  *)
C12_ReturnedRecordsAreCopies ==
  [][\A k \in 1..MaxPageSize :
       \A edit \in CallerEdits :
         CallerWrite(k, edit) =>
           \A resource \in Resources :
             Collection(mockDatabase', resource) = Collection(mockDatabase, resource)]_vars

\* every id of a record of any collection or of a spec line
AllIds(db) ==
  UNION {IdsIn(db, resource) : resource \in DOMAIN db}
    \cup UNION {SpecIds(b) : b \in Range(Collection(db, "bom_items"))}

(* C13: under every interleaving of create and cloneVariant calls in       *)
(* flight together, every id taken from the shared counter is greater than *)
(* every id taken before it: no two allocations yield the same id, and an  *)
(* id whose record was deleted is not issued again.                        *)
C13_IssuedIncreasing ==
  \A i, j \in 1..Len(issued) : i < j => issued[i] < issued[j]

\* a create ran while a clone is in flight, after an id the counter had
\* issued lost its record to a delete
C13_Witness ==
  /\ last.op = "create" /\ last.status = "ok"
  /\ \E i \in 1..Len(pending) : pending[i].op = "custom"
  /\ Len(issued) >= 2
  /\ issued[1] \notin AllIds(mockDatabase)

\* the record but for the fields named
Without(rec, fields) == [f \in (DOMAIN rec) \ fields |-> rec[f]]

(* C14: a successful cloneVariant(v, name) only appends: every record that *)
(* was in a collection is still there, at its position and unchanged, the  *)
(* source variant, its bom_items and their spec lines included; the new    *)
(* variant is the source variant but for id and color_name; each new       *)
(* bom_item is its source but for id, variant_id and specDetails, and its  *)
(* spec lines are, in order and number, those of the source but for id.    *)
C14_CloneOnlyAppends ==
  [][last'.op = "custom" =>
     \A url \in Urls(mockDatabase), method \in Methods, payload \in Payloads :
       (IsClone(url, method, payload) /\ last'.status = "ok") =>
         LET source  == mockDatabase.variants[FindVariant(mockDatabase.variants,
                                                          url.variantId)]
             sources == SelectSeq(mockDatabase.bom_items,
                                  LAMBDA b : Has(b, "variant_id")
                                               /\ b.variant_id = url.variantId)
             added   == Appended("bom_items")
         IN /\ DOMAIN mockDatabase' = DOMAIN mockDatabase
            /\ \A resource \in DOMAIN mockDatabase :
                 SubSeq(mockDatabase'[resource], 1, Len(mockDatabase[resource]))
                   = mockDatabase[resource]
            /\ Len(Appended("variants")) = 1
            /\ Without(Appended("variants")[1], {"id", "color_name"})
                 = Without(source, {"id", "color_name"})
            /\ Appended("variants")[1].color_name = payload.new_color_name
            /\ Len(added) = Len(sources)
            /\ \A k \in 1..Len(sources) :
                 /\ Without(added[k], {"id", "variant_id", "specDetails"})
                      = Without(sources[k], {"id", "variant_id", "specDetails"})
                 /\ Len(SpecLines(added[k])) = Len(SpecLines(sources[k]))
                 /\ \A i \in 1..Len(SpecLines(sources[k])) :
                      Without(SpecLines(added[k])[i], {"id", "ref"})
                        = Without(SpecLines(sources[k])[i], {"id", "ref"})]_vars

\* a clone settled: the source bom_item 1001 keeps its spec line 5001, and a
\* bom_item of the new variant has that line's value under another id
C14_Witness ==
  /\ last.op = "custom" /\ last.status = "ok"
  /\ \E b \in Range(mockDatabase.bom_items) :
       b.id = 1001 /\ SpecIds(b) = {5001}
  /\ \E c \in Range(mockDatabase.bom_items) :
       /\ c.variant_id = last.data.id
       /\ c.material_name = "m1"
       /\ \E e \in Range(SpecLines(c)) : e.spec_value = "10" /\ e.id # 5001

\* the ids taken by the step, in the order they were taken
Taken == SubSeq(issued', Len(issued) + 1, Len(issued'))

\* the ids of the bom_items and of their spec lines, bom_item by bom_item:
\* the id of the bom_item before those of its lines, or after them
RECURSIVE IdsInOrder(_, _)
IdsInOrder(bomItems, bomFirst) ==
  IF bomItems = <<>> THEN <<>>
  ELSE LET b     == Head(bomItems)
           lines == [i \in 1..Len(SpecLines(b)) |-> SpecLines(b)[i].id]
       IN (IF bomFirst THEN <<b.id>> \o lines ELSE lines \o <<b.id>>)
            \o IdsInOrder(Tail(bomItems), bomFirst)

(* C15 as the code has it: a successful cloneVariant takes ids from the    *)
(* allocator in this order: first the id of the new variant, then for each *)
(* source bom_item in collection order the id of the cloned bom_item       *)
(* followed by the ids of its cloned spec lines in sequence order; hence   *)
(* every cloned spec line's id is greater than the id of the cloned        *)
(* bom_item that contains it.                                              *)
C15_BomIdBeforeSpecIds ==
  [][last'.op = "custom" =>
     \A url \in Urls(mockDatabase), method \in Methods, payload \in Payloads :
       (IsClone(url, method, payload) /\ last'.status = "ok") =>
         /\ Taken = <<Appended("variants")[1].id>>
                      \o IdsInOrder(Appended("bom_items"), TRUE)
         /\ \A b \in Range(Appended("bom_items")) :
              \A e \in Range(SpecLines(b)) : e.id > b.id]_vars

(* C15: cloneVariant takes ids from the allocator in this order: first the *)
(* id of the new variant, then for each source bom_item in collection      *)
(* order the ids of its cloned spec lines (in sequence order) followed by  *)
(* the id of the cloned bom_item itself; hence every cloned spec line's id *)
(* is smaller than the id of the cloned bom_item that contains it.         *)
C15_SpecIdsBeforeBomId ==
  [][last'.op = "custom" =>
     \A url \in Urls(mockDatabase), method \in Methods, payload \in Payloads :
       (IsClone(url, method, payload) /\ last'.status = "ok") =>
         /\ Taken = <<Appended("variants")[1].id>>
                      \o IdsInOrder(Appended("bom_items"), FALSE)
         /\ \A b \in Range(Appended("bom_items")) :
              \A e \in Range(SpecLines(b)) : e.id < b.id]_vars

\* a clone settled whose last two ids went to a bom_item and then to its
\* one spec line, after the id of the new variant and an id taken earlier
C15_Witness ==
  /\ last.op = "custom" /\ last.status = "ok"
  /\ Len(issued) >= 4
  /\ \E b \in Range(mockDatabase.bom_items) :
       /\ b.variant_id = last.data.id
       /\ b.id = issued[Len(issued) - 1]
       /\ SpecIds(b) = {issued[Len(issued)]}

====
